---- MODULE Spec2Model ----
(***************************************************************************)
(* A model of the FormGuard form builder, form viewer and the row-level    *)
(* security of its store.                                                  *)
(*                                                                         *)
(* Strings are sequences of one-character strings, so that trim(),         *)
(* toString() and the truthiness of '' are computed, not assumed.  A       *)
(* JavaScript value that may be undefined is a record with a tag, so that  *)
(* "key absent", "key present and undefined" and "present" are distinct.   *)
(***************************************************************************)
EXTENDS Integers, Sequences, FiniteSets, TLC

VARIABLES
  now,        \* Date.now() of the builder's browser
  formData,   \* FormBuilder: useState<FormData>
  formId,     \* FormBuilder: useParams().formId, NoForm on the create screen
  screen,     \* "builder", or "dashboard" once the builder has navigated away
  loading,    \* FormBuilder: useState(false), true while fetchForm is awaited
  saving,     \* FormBuilder: useState(false)
  saveReq,    \* the handleSave call that is awaited, with what its closure holds
  forms,      \* the store's forms table
  lastSaved,  \* the builder state the last successful save serialized
  lastOp,     \* the operation that produced the current state
  respondent, \* the user signed in on the viewer's browser, or NoUser
  vFormId,    \* FormViewer: useParams().formId
  vForm,      \* FormViewer: useState<Form | null>(null)
  vLoading,   \* FormViewer: useState(true)
  submitting, \* FormViewer: useState(false)
  submitted,  \* FormViewer: useState(false)
  answers,    \* FormViewer: useState<Record<string, any>>({})
  errors,     \* FormViewer: useState<Record<string, string>>({})
  startTime,  \* FormViewer: useState(Date.now())
  userEmail,  \* FormViewer: useState('')
  userName,   \* FormViewer: useState('')
  sessionPc,  \* where checkUserSession stands
  insertReq,  \* the insert handleSubmit awaits
  issued,     \* the number of inserts the viewer has sent
  responses,  \* the store's form_responses table
  everPublished, \* the forms that have been published at some time
  users,      \* the store's users table: the ids of the accounts
  nextId      \* the number of the next response row (its id)

builderVars == <<formData, formId, screen, loading, saving, saveReq, lastSaved>>
viewerVars == <<vFormId, vForm, vLoading, submitting, submitted, answers, errors,
                startTime, userEmail, userName, sessionPc, insertReq, issued>>
storeVars == <<forms, responses, everPublished, users, nextId>>
vars == <<now, lastOp, respondent, builderVars, viewerVars, storeVars>>

----------------------------------------------------------------------------
(* Bounds of the model *)

\* the clock stops at MaxClock
MaxClock == 2
\* addField is offered while the form has fewer than MaxFields fields
MaxFields == 3
\* the field-content specification offers addField below MaxTyped fields
MaxTyped == 2
\* addOption is offered while the field has fewer than MaxOptions options
MaxOptions == 2

\* the ids the store gives to forms
FormIds == {"f1"}
NoForm == "none"

\* the user signed in on the builder's browser
BuilderUser == "u1"
NoUser == "nobody"

\* what the user types into the title and the description
TitleTexts == {<<"T">>, <<" ">>}
DescriptionTexts == {<<"d">>}
\* the types the Field Type select is set to where saves are followed
SavedTypes == {"checkbox", "date"}

\* what the user types into an option, a label and a placeholder
OptionTexts == {<<"a">>}
LabelTexts == {<<"L">>}
PlaceholderTexts == {<<"p">>}

----------------------------------------------------------------------------
(* Strings and optional values *)

EmptyStr == <<>>

Option1 == <<"O", "p", "t", "i", "o", "n", " ", "1">>
Option2 == <<"O", "p", "t", "i", "o", "n", " ", "2">>

\* field.options: the key is absent, present with the value undefined, or an array
OptAbsent == [st |-> "absent", v |-> <<>>]
OptUndefined == [st |-> "undefined", v |-> <<>>]
OptArray(a) == [st |-> "array", v |-> a]

\* the ids no field of the form carries
NoId == -1

FieldTypes ==
  {"short_text", "paragraph", "multiple_choice", "checkbox", "dropdown",
   "date", "file_upload"}

\* what reading an index outside the array yields
UndefinedField ==
  [id |-> NoId, type |-> "undefined", label |-> EmptyStr, required |-> FALSE,
   options |-> OptAbsent, placeholder |-> EmptyStr]

----------------------------------------------------------------------------
(* FormBuilder: the synchronous field operations *)

\* `field_${Date.now()}`: the id is the timestamp behind the fixed prefix
NewFieldId(fields, t) == t

newField(fields, t) ==
  [id |-> NewFieldId(fields, t), type |-> "short_text", label |-> EmptyStr,
   required |-> FALSE, options |-> OptAbsent, placeholder |-> EmptyStr]

addField(fields, t) == Append(fields, newField(fields, t))

\* { ...field, ...updates }
Merge(field, updates) ==
  [k \in DOMAIN field |-> IF k \in DOMAIN updates THEN updates[k] ELSE field[k]]

updateField(fields, fieldId, updates) ==
  [i \in 1..Len(fields) |->
     IF fields[i].id = fieldId THEN Merge(fields[i], updates) ELSE fields[i]]

removeField(fields, fieldId) ==
  LET keep(f) == f.id # fieldId IN SelectSeq(fields, keep)

\* Array.prototype.findIndex, 1-based; 0 is JavaScript's -1
findIndex(fields, fieldId) ==
  IF \E i \in 1..Len(fields) : fields[i].id = fieldId
  THEN CHOOSE i \in 1..Len(fields) :
         /\ fields[i].id = fieldId
         /\ \A j \in 1..(i - 1) : fields[j].id # fieldId
  ELSE 0

\* fields[i] of a JavaScript array: undefined outside the array
At(fields, i) == IF i \in 1..Len(fields) THEN fields[i] ELSE UndefinedField

\* fields[i] = v: a write outside the array sets a property, not an element
\* (index 0 here is JavaScript's -1)
Put(fields, i, v) == IF i \in 1..Len(fields) THEN [fields EXCEPT ![i] = v] ELSE fields

moveFieldNoLowerGuard(fields, fieldId, direction) ==
  LET index == findIndex(fields, fieldId)
      newIndex == IF direction = "up" THEN index - 1 ELSE index + 1
  IN IF newIndex > Len(fields) THEN fields
     ELSE Put(Put(fields, index, At(fields, newIndex)), newIndex, At(fields, index))
moveField(fields, fieldId, direction) ==
  LET index == findIndex(fields, fieldId)
      newIndex == IF direction = "up" THEN index - 1 ELSE index + 1
  IN IF newIndex < 1 \/ newIndex > Len(fields) THEN fields
     ELSE Put(Put(fields, index, At(fields, newIndex)), newIndex, At(fields, index))

----------------------------------------------------------------------------
(* FormFieldBuilder: the updates each control of a field card sends to onUpdate *)

IsChoice(type) == type \in {"multiple_choice", "checkbox", "dropdown"}
IsText(type) == type \in {"short_text", "paragraph"}

\* the truthiness of field.options: every array is truthy, the empty one too
OptionsTruthy(options) == options.st = "array"

\* field.options || []
OptionsOrEmpty(options) == IF OptionsTruthy(options) THEN options.v ELSE <<>>

\* the Field Type select's onValueChange
typeUpdates(field, value) ==
  IF ~IsChoice(value) THEN [type |-> value, options |-> OptUndefined]
  ELSE IF ~OptionsTruthy(field.options)
       THEN [type |-> value, options |-> OptArray(<<Option1, Option2>>)]
       ELSE [type |-> value]

addOptionUpdates(field) ==
  [options |-> OptArray(Append(OptionsOrEmpty(field.options), EmptyStr))]

\* newOptions[optionIndex] = value, for an index the card renders
updateOptionUpdates(field, optionIndex, value) ==
  [options |-> OptArray([OptionsOrEmpty(field.options) EXCEPT ![optionIndex] = value])]

removeOptionUpdates(field, optionIndex) ==
  LET cur == OptionsOrEmpty(field.options)
  IN [options |-> OptArray([i \in 1..(Len(cur) - 1) |->
                              IF i < optionIndex THEN cur[i] ELSE cur[i + 1]])]

----------------------------------------------------------------------------
(* Strings *)

IsSpace(c) == c = " "

\* String.prototype.trim
RECURSIVE TrimStart(_)
TrimStart(s) ==
  IF s # <<>> /\ IsSpace(Head(s)) THEN TrimStart(Tail(s)) ELSE s

RECURSIVE TrimEnd(_)
TrimEnd(s) ==
  IF s # <<>> /\ IsSpace(s[Len(s)]) THEN TrimEnd(SubSeq(s, 1, Len(s) - 1)) ELSE s

Trim(s) == TrimEnd(TrimStart(s))

\* the truthiness of a string
StrTruthy(s) == s # EmptyStr

----------------------------------------------------------------------------
(* The store: the forms table and its row-level security *)

NoRow ==
  [exists |-> FALSE, title |-> EmptyStr, description |-> EmptyStr, fields |-> <<>>,
   is_published |-> FALSE, owner_id |-> NoUser]

\* auth.uid() = x: auth.uid() is NULL for a caller who is not signed in, and
\* NULL equals nothing
AuthUidIs(uid, x) == uid # NoUser /\ uid = x

\* "Users can view their own forms", "Anyone can view published forms"
FormsSelectPolicyOwnerOnly(uid, row) == AuthUidIs(uid, row.owner_id)
FormsSelectPolicy(uid, row) == AuthUidIs(uid, row.owner_id) \/ row.is_published

\* "Users can create forms"
FormsInsertPolicy(uid, row) == AuthUidIs(uid, row.owner_id)

\* "Users can update their own forms": USING on the old row, and on the new one
FormsUpdatePolicySignedIn(uid, old, new) == uid # NoUser
FormsUpdatePolicy(uid, old, new) ==
  AuthUidIs(uid, old.owner_id) /\ AuthUidIs(uid, new.owner_id)

\* "Users can delete their own forms"
FormsDeletePolicy(uid, row) == AuthUidIs(uid, row.owner_id)

\* JSON.stringify of a field: a key whose value is undefined is left out
FieldToJson(field) ==
  [field EXCEPT !.options = IF field.options.st = "undefined" THEN OptAbsent
                            ELSE field.options]

FieldsToJson(fields) == [i \in 1..Len(fields) |-> FieldToJson(fields[i])]

\* the row a payload becomes
RowOf(payload) ==
  [exists |-> TRUE, title |-> payload.title, description |-> payload.description,
   fields |-> FieldsToJson(payload.fields), is_published |-> payload.is_published,
   owner_id |-> payload.owner_id]

\* .from('forms').select('*').eq('id', id).single() as uid: the row, or NoRow
\* with the error of a query that returns no row
SelectForm(uid, id) ==
  IF id \in DOMAIN forms /\ forms[id].exists /\ FormsSelectPolicy(uid, forms[id])
  THEN forms[id] ELSE NoRow

----------------------------------------------------------------------------
(* FormBuilder: fetchForm and handleSave *)

EmptyFormData ==
  [title |-> EmptyStr, description |-> EmptyStr, fields |-> <<>>,
   is_published |-> FALSE]

NoSave == [active |-> FALSE, publish |-> FALSE, formId |-> NoForm, data |-> EmptyFormData]

\* data.description || ''
DescriptionOrEmpty(d) == IF StrTruthy(d) THEN d ELSE EmptyStr

\* the setFormData of fetchForm
FetchedFormDataNoDescription(row) ==
  [title |-> row.title, description |-> EmptyStr,
   fields |-> row.fields, is_published |-> row.is_published]
FetchedFormData(row) ==
  [title |-> row.title, description |-> DescriptionOrEmpty(row.description),
   fields |-> row.fields, is_published |-> row.is_published]

\* formPayload, from the formData of the render the button was clicked in
formPayloadKeepsFlag(data, publish, uid) ==
  [title |-> data.title, description |-> data.description, fields |-> data.fields,
   is_published |-> data.is_published, owner_id |-> uid]
formPayload(data, publish, uid) ==
  [title |-> data.title, description |-> data.description, fields |-> data.fields,
   is_published |-> (publish \/ data.is_published), owner_id |-> uid]

----------------------------------------------------------------------------
(* FormViewer: answers, validation and the submission *)

\* a key of the answers and errors objects: a field's id, or a reserved key
FieldKey(id) == <<"field", id>>
UserEmailKey == <<"user_email", NoId>>
UserNameKey == <<"user_name", NoId>>

\* a value of the answers object: a string, or an array of strings; the value
\* read under an absent key is undefined
StrAns(s) == [kind |-> "str", v |-> <<s>>]
ArrAns(a) == [kind |-> "arr", v |-> a]
AnsUndefined == [kind |-> "undefined", v |-> <<>>]

NoAnswers == [k \in {} |-> AnsUndefined]
NoErrors == [k \in {} |-> ""]

\* answers[key]
Get(obj, key) == IF key \in DOMAIN obj THEN obj[key] ELSE AnsUndefined

\* { ...obj, [key]: a }; JSON.stringify leaves out a key whose value is undefined
WithKey(obj, key, a) ==
  [k \in DOMAIN obj \cup {key} |-> IF k = key THEN a ELSE obj[k]]

DropUndefined(obj) ==
  [k \in {x \in DOMAIN obj : obj[x].kind # "undefined"} |-> obj[k]]

\* delete obj[key]
WithoutKey(obj, key) == [k \in DOMAIN obj \ {key} |-> obj[k]]

\* !a
Falsy(a) == a.kind = "undefined" \/ (a.kind = "str" /\ ~StrTruthy(a.v[1]))

\* Array.prototype.join(',')
RECURSIVE Join(_)
Join(a) ==
  IF a = <<>> THEN EmptyStr
  ELSE IF Len(a) = 1 THEN a[1]
  ELSE a[1] \o <<",">> \o Join(Tail(a))

\* a.toString() of a string or an array of strings
ToStr(a) == IF a.kind = "arr" THEN Join(a.v) ELSE a.v[1]

\* !answers[key] || !answers[key].trim()
BlankTypedUntrimmed(a) == Falsy(a)
BlankTyped(a) == Falsy(a) \/ ~StrTruthy(Trim(a.v[1]))

\* the test validateForm applies to a field
FieldFailsUnrequired(field, obj) ==
  LET answer == Get(obj, FieldKey(field.id))
  IN \/ Falsy(answer)
     \/ (answer.kind = "arr" /\ Len(answer.v) = 0)
     \/ Trim(ToStr(answer)) = EmptyStr
FieldFails(field, obj) ==
  /\ field.required
  /\ LET answer == Get(obj, FieldKey(field.id))
     IN \/ Falsy(answer)
        \/ (answer.kind = "arr" /\ Len(answer.v) = 0)
        \/ Trim(ToStr(answer)) = EmptyStr

\* newErrors of validateForm
validateFormIdentityOnly(fields, obj, email, name) ==
  LET emailKeys == IF ~StrTruthy(email) /\ BlankTyped(Get(obj, UserEmailKey))
                   THEN {UserEmailKey} ELSE {}
      nameKeys == IF ~StrTruthy(name) /\ BlankTyped(Get(obj, UserNameKey))
                  THEN {UserNameKey} ELSE {}
  IN [k \in emailKeys \cup nameKeys |->
        IF k = UserEmailKey THEN "Email is required" ELSE "Name is required"]
validateForm(fields, obj, email, name) ==
  LET emailKeys == IF ~StrTruthy(email) /\ BlankTyped(Get(obj, UserEmailKey))
                   THEN {UserEmailKey} ELSE {}
      nameKeys == IF ~StrTruthy(name) /\ BlankTyped(Get(obj, UserNameKey))
                  THEN {UserNameKey} ELSE {}
      fieldKeys == {FieldKey(fields[i].id) :
                      i \in {j \in 1..Len(fields) : FieldFails(fields[j], obj)}}
  IN [k \in emailKeys \cup nameKeys \cup fieldKeys |->
        IF k = UserEmailKey THEN "Email is required"
        ELSE IF k = UserNameKey THEN "Name is required"
        ELSE "This field is required"]

\* the clock is read in steps of TickMs milliseconds
TickMs == 500

\* Math.round((Date.now() - startTime) / 1000)
timeTakenFloor(t, start) == ((t - start) * TickMs) \div 1000
timeTaken(t, start) == ((t - start) * TickMs + 500) \div 1000

\* the answers of submissionData, as JSON
submissionAnswersTypedFirst(obj, email, name) ==
  DropUndefined(
    WithKey(WithKey(obj, UserEmailKey,
                    IF Falsy(Get(obj, UserEmailKey)) THEN StrAns(email)
                    ELSE Get(obj, UserEmailKey)),
            UserNameKey,
            IF Falsy(Get(obj, UserNameKey)) THEN StrAns(name)
            ELSE Get(obj, UserNameKey)))
submissionAnswersAsTyped(obj, email, name) == DropUndefined(obj)
submissionAnswers(obj, email, name) ==
  DropUndefined(
    WithKey(WithKey(obj, UserEmailKey,
                    IF StrTruthy(email) THEN StrAns(email) ELSE Get(obj, UserEmailKey)),
            UserNameKey,
            IF StrTruthy(name) THEN StrAns(name) ELSE Get(obj, UserNameKey)))

submissionData(id, uid, obj, email, name, t, start) ==
  [form_id |-> id, user_id |-> uid,
   answers |-> submissionAnswers(obj, email, name),
   metadata |-> [time_taken |-> timeTaken(t, start),
                 user_agent |-> "navigator.userAgent", tab_switches |-> 0]]

NoInsert ==
  [active |-> FALSE,
   row |-> [form_id |-> NoForm, user_id |-> NoUser, answers |-> NoAnswers,
            metadata |-> [time_taken |-> 0, user_agent |-> "", tab_switches |-> 0]]]

\* form === null
NoViewed ==
  [loaded |-> FALSE, id |-> NoForm, title |-> EmptyStr, description |-> EmptyStr,
   fields |-> <<>>]

\* the setForm of the viewer's fetchForm
ViewedForm(id, row) ==
  [loaded |-> TRUE, id |-> id, title |-> row.title, description |-> row.description,
   fields |-> row.fields]

\* the viewer's select: .eq('id', formId).eq('is_published', true).single()
SelectVisible(uid, id) == SelectForm(uid, id)
SelectPublished(uid, id) ==
  IF SelectForm(uid, id).is_published THEN SelectForm(uid, id) ELSE NoRow

\* "Anyone can submit responses to published forms"
ResponsesInsertPolicyAnyForm(row) ==
  row.form_id \in DOMAIN forms /\ forms[row.form_id].exists
ResponsesInsertPolicy(row) ==
  /\ row.form_id \in DOMAIN forms
  /\ forms[row.form_id].exists
  /\ forms[row.form_id].is_published

\* form_id REFERENCES forms(id) NOT NULL, user_id REFERENCES users(id)
ResponsesForeignKeys(row) ==
  /\ row.form_id \in DOMAIN forms
  /\ forms[row.form_id].exists
  /\ (row.user_id = NoUser \/ row.user_id \in users)

\* the row the store keeps: id DEFAULT gen_random_uuid(), submitted_at
\* DEFAULT NOW()
StoredResponse(row, id, t) ==
  [id |-> id, form_id |-> row.form_id, user_id |-> row.user_id,
   answers |-> row.answers, metadata |-> row.metadata, submitted_at |-> t]

\* the accounts of the respondents: auth.users and public.users
Accounts == {BuilderUser, "u2"}
Respondents == {NoUser} \cup Accounts
EmailOf(uid) == <<"e">>
ProfileName(uid) == <<"n">>

----------------------------------------------------------------------------
(* The builder's actions *)

Init ==
  /\ now = 0
  /\ formData = EmptyFormData
  /\ formId = NoForm
  /\ screen = "builder"
  /\ loading = FALSE
  /\ saving = FALSE
  /\ saveReq = NoSave
  /\ forms = [id \in FormIds |-> NoRow]
  /\ lastSaved = [valid |-> FALSE, data |-> EmptyFormData]
  /\ lastOp = [op |-> "init", id |-> NoId]
  /\ respondent = NoUser
  /\ vFormId = NoForm
  /\ vForm = NoViewed
  /\ vLoading = TRUE
  /\ submitting = FALSE
  /\ submitted = FALSE
  /\ answers = NoAnswers
  /\ errors = NoErrors
  /\ startTime = 0
  /\ userEmail = EmptyStr
  /\ userName = EmptyStr
  /\ sessionPc = "done"
  /\ insertReq = NoInsert
  /\ issued = 0
  /\ responses = <<>>
  /\ everPublished = {}
  /\ users = Accounts
  /\ nextId = 1

\* the builder's controls are rendered: the screen is the builder and it does
\* not show the loading spinner
Rendered == screen = "builder" /\ ~loading

\* what an edit of the fields leaves alone
FieldEdit(fields, op, id) ==
  /\ Rendered
  /\ formData' = [formData EXCEPT !.fields = fields]
  /\ lastOp' = [op |-> op, id |-> id]
  /\ UNCHANGED <<now, formId, screen, loading, saving, saveReq, lastSaved>>
  /\ UNCHANGED <<respondent, viewerVars, storeVars>>

Tick ==
  /\ now < MaxClock
  /\ now' = now + 1
  /\ UNCHANGED <<lastOp, respondent, builderVars, viewerVars, storeVars>>

AddField ==
  /\ Len(formData.fields) < MaxFields
  /\ FieldEdit(addField(formData.fields, now), "addField", now)

\* the Required switch of the i-th rendered field
SetRequired ==
  \E i \in 1..Len(formData.fields), b \in BOOLEAN :
    FieldEdit(updateField(formData.fields, formData.fields[i].id, [required |-> b]),
              "updateField", formData.fields[i].id)

\* the remove button of the i-th rendered field
RemoveField ==
  \E i \in 1..Len(formData.fields) :
    FieldEdit(removeField(formData.fields, formData.fields[i].id),
              "removeField", formData.fields[i].id)

\* the up and down buttons of the i-th rendered field; canMoveUp and
\* canMoveDown disable them at the boundary
MoveField ==
  \E i \in 1..Len(formData.fields), dir \in {"up", "down"} :
    /\ dir = "up" => i > 1
    /\ dir = "down" => i < Len(formData.fields)
    /\ FieldEdit(moveField(formData.fields, formData.fields[i].id, dir),
                 "moveField", formData.fields[i].id)

\* the Field Type select of the i-th rendered field, set to one of types
ChangeType(types) ==
  \E i \in 1..Len(formData.fields), value \in types :
    FieldEdit(updateField(formData.fields, formData.fields[i].id,
                          typeUpdates(formData.fields[i], value)),
              "changeType", formData.fields[i].id)

\* the option controls are rendered for the choice types only (hasOptions)
AddOption ==
  \E i \in 1..Len(formData.fields) :
    /\ IsChoice(formData.fields[i].type)
    /\ Len(OptionsOrEmpty(formData.fields[i].options)) < MaxOptions
    /\ FieldEdit(updateField(formData.fields, formData.fields[i].id,
                             addOptionUpdates(formData.fields[i])),
                 "addOption", formData.fields[i].id)

UpdateOption ==
  \E i \in 1..Len(formData.fields), value \in OptionTexts :
    \E k \in 1..Len(OptionsOrEmpty(formData.fields[i].options)) :
      /\ IsChoice(formData.fields[i].type)
      /\ FieldEdit(updateField(formData.fields, formData.fields[i].id,
                               updateOptionUpdates(formData.fields[i], k, value)),
                   "updateOption", formData.fields[i].id)

RemoveOption ==
  \E i \in 1..Len(formData.fields) :
    \E k \in 1..Len(OptionsOrEmpty(formData.fields[i].options)) :
      /\ IsChoice(formData.fields[i].type)
      /\ FieldEdit(updateField(formData.fields, formData.fields[i].id,
                               removeOptionUpdates(formData.fields[i], k)),
                   "removeOption", formData.fields[i].id)

SetLabel ==
  \E i \in 1..Len(formData.fields), value \in LabelTexts :
    FieldEdit(updateField(formData.fields, formData.fields[i].id, [label |-> value]),
              "updateField", formData.fields[i].id)

\* the placeholder input is rendered for the text types only
SetPlaceholder ==
  \E i \in 1..Len(formData.fields), value \in PlaceholderTexts :
    /\ IsText(formData.fields[i].type)
    /\ FieldEdit(updateField(formData.fields, formData.fields[i].id,
                             [placeholder |-> value]),
                 "updateField", formData.fields[i].id)

\* what an edit of the form settings leaves alone
SettingEdit(data, op) ==
  /\ Rendered
  /\ formData' = data
  /\ lastOp' = [op |-> op, id |-> NoId]
  /\ UNCHANGED <<now, formId, screen, loading, saving, saveReq, lastSaved>>
  /\ UNCHANGED <<respondent, viewerVars, storeVars>>

SetTitle ==
  \E value \in TitleTexts : SettingEdit([formData EXCEPT !.title = value], "setTitle")

SetDescription ==
  \E value \in DescriptionTexts :
    SettingEdit([formData EXCEPT !.description = value], "setDescription")

\* the Published switch, rendered on the edit screen only
TogglePublished ==
  /\ formId # NoForm
  /\ SettingEdit([formData EXCEPT !.is_published = ~formData.is_published],
                 "setPublished")

\* handleSave with an empty or blank title: the toast, and nothing else
SaveNoTitle ==
  /\ Rendered
  /\ ~saving
  /\ ~StrTruthy(Trim(formData.title))
  /\ lastOp' = [op |-> "saveNoTitle", id |-> NoId]
  /\ UNCHANGED <<now, formData, formId, screen, loading, saving, saveReq, lastSaved>>
  /\ UNCHANGED <<respondent, viewerVars, storeVars>>

\* handleSave(publish) up to its first await; Save Draft and Publish Form are
\* disabled while saving.  Between here and the store's answer the handler
\* changes nothing the builder holds: getUser and the request are one wait.
SaveStartUntrimmed ==
  \E publish \in BOOLEAN :
    /\ Rendered
    /\ ~saving
    /\ StrTruthy(formData.title)
    /\ saving' = TRUE
    /\ saveReq' = [active |-> TRUE, publish |-> publish, formId |-> formId,
                   data |-> formData]
    /\ lastOp' = [op |-> "saveStart", id |-> NoId]
    /\ UNCHANGED <<now, formData, formId, screen, loading, lastSaved>>
    /\ UNCHANGED <<respondent, viewerVars, storeVars>>
SaveStart ==
  \E publish \in BOOLEAN :
    /\ Rendered
    /\ ~saving
    /\ StrTruthy(Trim(formData.title))
    /\ saving' = TRUE
    /\ saveReq' = [active |-> TRUE, publish |-> publish, formId |-> formId,
                   data |-> formData]
    /\ lastOp' = [op |-> "saveStart", id |-> NoId]
    /\ UNCHANGED <<now, formData, formId, screen, loading, lastSaved>>
    /\ UNCHANGED <<respondent, viewerVars, storeVars>>

\* the update of an existing form is applied and answered
SaveUpdated ==
  /\ saveReq.active
  /\ saveReq.formId # NoForm
  /\ LET new == RowOf(formPayload(saveReq.data, saveReq.publish, BuilderUser))
         old == forms[saveReq.formId]
     IN /\ old.exists
        /\ FormsUpdatePolicy(BuilderUser, old, new)
        /\ forms' = [forms EXCEPT ![saveReq.formId] = new]
        /\ everPublished' = IF new.is_published
                            THEN everPublished \cup {saveReq.formId}
                            ELSE everPublished
  /\ formData' = [formData EXCEPT
                    !.is_published = saveReq.publish \/ formData.is_published]
  /\ saving' = FALSE
  /\ saveReq' = NoSave
  /\ lastSaved' = [valid |-> TRUE, data |-> saveReq.data]
  /\ lastOp' = [op |-> "saveUpdated", id |-> NoId]
  /\ UNCHANGED <<now, formId, screen, loading, respondent, viewerVars>>
  /\ UNCHANGED <<responses, users, nextId>>

\* the insert of a new form is applied and answered: navigate to /edit/<id>,
\* whose effect calls fetchForm
SaveCreated ==
  /\ saveReq.active
  /\ saveReq.formId = NoForm
  /\ \E id \in DOMAIN forms :
       LET new == RowOf(formPayload(saveReq.data, saveReq.publish, BuilderUser))
       IN /\ ~forms[id].exists
          /\ FormsInsertPolicy(BuilderUser, new)
          /\ forms' = [forms EXCEPT ![id] = new]
          /\ everPublished' = IF new.is_published THEN everPublished \cup {id}
                              ELSE everPublished
          /\ formId' = id
  /\ loading' = TRUE
  /\ saving' = FALSE
  /\ saveReq' = NoSave
  /\ lastSaved' = [valid |-> TRUE, data |-> saveReq.data]
  /\ lastOp' = [op |-> "saveCreated", id |-> NoId]
  /\ UNCHANGED <<now, formData, screen, respondent, viewerVars>>
  /\ UNCHANGED <<responses, users, nextId>>

\* no authenticated user, or the store or the network fails the request
SaveFailResets ==
  /\ saveReq.active
  /\ saving' = FALSE
  /\ saveReq' = NoSave
  /\ formData' = EmptyFormData
  /\ lastOp' = [op |-> "saveFailed", id |-> NoId]
  /\ UNCHANGED <<now, formId, screen, loading, lastSaved>>
  /\ UNCHANGED <<respondent, viewerVars, storeVars>>
SaveFail ==
  /\ saveReq.active
  /\ saving' = FALSE
  /\ saveReq' = NoSave
  /\ lastOp' = [op |-> "saveFailed", id |-> NoId]
  /\ UNCHANGED <<now, formData, formId, screen, loading, lastSaved>>
  /\ UNCHANGED <<respondent, viewerVars, storeVars>>

\* fetchForm's select is answered with the row
FetchForm ==
  /\ screen = "builder"
  /\ loading
  /\ SelectForm(BuilderUser, formId).exists
  /\ formData' = FetchedFormData(SelectForm(BuilderUser, formId))
  /\ loading' = FALSE
  /\ lastOp' = [op |-> "fetchForm", id |-> NoId]
  /\ UNCHANGED <<now, formId, screen, saving, saveReq, lastSaved>>
  /\ UNCHANGED <<respondent, viewerVars, storeVars>>

\* fetchForm's select fails (no row, or the network): toast, and the dashboard
FetchFail ==
  /\ screen = "builder"
  /\ loading
  /\ screen' = "dashboard"
  /\ loading' = FALSE
  /\ lastOp' = [op |-> "fetchFailed", id |-> NoId]
  /\ UNCHANGED <<now, formData, formId, saving, saveReq, lastSaved>>
  /\ UNCHANGED <<respondent, viewerVars, storeVars>>

\* the user opens /edit/<id> (from the dashboard, or by reloading the page)
\* while no save is awaited: a fresh FormBuilder whose effect calls fetchForm
OpenEdit ==
  \E id \in DOMAIN forms :
    /\ forms[id].exists
    /\ ~saveReq.active
    /\ ~loading
    /\ formData' = EmptyFormData
    /\ formId' = id
    /\ screen' = "builder"
    /\ loading' = TRUE
    /\ saving' = FALSE
    /\ lastOp' = [op |-> "openEdit", id |-> NoId]
    /\ UNCHANGED <<now, saveReq, lastSaved, respondent, viewerVars, storeVars>>

----------------------------------------------------------------------------
(* The store, called directly: any caller, the row-level security policies, *)
(* the foreign keys and their ON DELETE clauses                             *)

\* the response rows the store is followed through
MaxResponses == 2

StoreFormIds == {"f1", "f2"}

\* who calls the store: nobody signed in, or an account that still exists
Callers == {NoUser} \cup Accounts
SignedInOrAnonymous(uid) == uid = NoUser \/ uid \in users

\* the row of an insert or update sent to the forms table
FormRow(owner, published) ==
  [exists |-> TRUE, title |-> <<"T">>, description |-> EmptyStr, fields |-> <<>>,
   is_published |-> published, owner_id |-> owner]

\* the row of an insert sent to the form_responses table
ResponseRow(id, uid) ==
  [form_id |-> id, user_id |-> uid, answers |-> NoAnswers,
   metadata |-> [time_taken |-> 0, user_agent |-> "", tab_switches |-> 0]]

\* "Form owners can view responses"
ResponsesSelectPolicyAnyone(uid, row) ==
  row.form_id \in DOMAIN forms /\ forms[row.form_id].exists
ResponsesSelectPolicy(uid, row) ==
  /\ row.form_id \in DOMAIN forms
  /\ forms[row.form_id].exists
  /\ FormsSelectPolicy(uid, forms[row.form_id])
  /\ AuthUidIs(uid, forms[row.form_id].owner_id)

\* .from('form_responses').select('*').eq('form_id', id) as uid
SelectResponses(uid, id) ==
  LET visible(r) == r.form_id = id /\ ResponsesSelectPolicy(uid, r)
  IN SelectSeq(responses, visible)

\* ON DELETE CASCADE of form_responses.form_id: the responses left when the
\* forms in ids are deleted
CascadeKeepsAll(rows, ids) == rows
Cascade(rows, ids) == LET keep(r) == r.form_id \notin ids IN SelectSeq(rows, keep)

\* ON DELETE SET NULL of form_responses.user_id
SetNullEvery(rows, uid) ==
  [i \in 1..Len(rows) |-> [rows[i] EXCEPT !.user_id = NoUser]]
SetNull(rows, uid) ==
  [i \in 1..Len(rows) |->
     IF rows[i].user_id = uid THEN [rows[i] EXCEPT !.user_id = NoUser] ELSE rows[i]]

InitStore ==
  /\ now = 0
  /\ formData = EmptyFormData
  /\ formId = NoForm
  /\ screen = "builder"
  /\ loading = FALSE
  /\ saving = FALSE
  /\ saveReq = NoSave
  /\ forms = [id \in StoreFormIds |-> NoRow]
  /\ lastSaved = [valid |-> FALSE, data |-> EmptyFormData]
  /\ lastOp = [op |-> "init", id |-> NoId]
  /\ respondent = NoUser
  /\ vFormId = NoForm
  /\ vForm = NoViewed
  /\ vLoading = TRUE
  /\ submitting = FALSE
  /\ submitted = FALSE
  /\ answers = NoAnswers
  /\ errors = NoErrors
  /\ startTime = 0
  /\ userEmail = EmptyStr
  /\ userName = EmptyStr
  /\ sessionPc = "done"
  /\ insertReq = NoInsert
  /\ issued = 0
  /\ responses = <<>>
  /\ everPublished = {}
  /\ users = Accounts
  /\ nextId = 1

\* what a call to the store leaves alone
StoreCall(op) ==
  /\ lastOp' = [op |-> op, id |-> NoId]
  /\ UNCHANGED <<now, respondent, builderVars, viewerVars>>

\* insert into forms, as uid, of a row that names owner
StoreInsertFormBy(uid, id, owner, published) ==
  /\ SignedInOrAnonymous(uid)
  /\ ~forms[id].exists
  /\ owner \in users
  /\ FormsInsertPolicy(uid, FormRow(owner, published))
  /\ forms' = [forms EXCEPT ![id] = FormRow(owner, published)]
  /\ everPublished' = IF published THEN everPublished \cup {id} ELSE everPublished
  /\ StoreCall("storeInsertForm")
  /\ UNCHANGED <<responses, users, nextId>>

StoreInsertForm ==
  \E uid \in Callers, id \in DOMAIN forms, owner \in Accounts, published \in BOOLEAN :
    StoreInsertFormBy(uid, id, owner, published)

\* update forms ... where id = id, as uid: the row has to be visible to uid
StoreUpdateFormBy(uid, id, owner, published) ==
  /\ SignedInOrAnonymous(uid)
  /\ forms[id].exists
  /\ owner \in users
  /\ FormsSelectPolicy(uid, forms[id])
  /\ FormsUpdatePolicy(uid, forms[id],
                       [forms[id] EXCEPT !.owner_id = owner, !.is_published = published])
  /\ forms' = [forms EXCEPT ![id].owner_id = owner, ![id].is_published = published]
  /\ everPublished' = IF published THEN everPublished \cup {id} ELSE everPublished
  /\ StoreCall("storeUpdateForm")
  /\ UNCHANGED <<responses, users, nextId>>

StoreUpdateForm ==
  \E uid \in Callers, id \in DOMAIN forms, owner \in Accounts, published \in BOOLEAN :
    StoreUpdateFormBy(uid, id, owner, published)

\* delete from forms where id = id, as uid (the Dashboard's handleDeleteForm);
\* the form's responses go in the same statement
StoreDeleteFormBy(uid, id) ==
  /\ SignedInOrAnonymous(uid)
  /\ forms[id].exists
  /\ FormsSelectPolicy(uid, forms[id])
  /\ FormsDeletePolicy(uid, forms[id])
  /\ forms' = [forms EXCEPT ![id] = NoRow]
  /\ responses' = Cascade(responses, {id})
  /\ StoreCall("storeDeleteForm")
  /\ UNCHANGED <<everPublished, users, nextId>>

StoreDeleteForm ==
  \E uid \in Callers, id \in DOMAIN forms : StoreDeleteFormBy(uid, id)

\* insert into form_responses, as uid; the row's user_id is what the caller
\* sends
StoreInsertResponse ==
  \E uid \in Callers, id \in DOMAIN forms, rowUser \in Callers :
    /\ SignedInOrAnonymous(uid)
    /\ nextId <= MaxResponses
    /\ ResponsesInsertPolicy(ResponseRow(id, rowUser))
    /\ ResponsesForeignKeys(ResponseRow(id, rowUser))
    /\ responses' = Append(responses, StoredResponse(ResponseRow(id, rowUser), nextId, now))
    /\ nextId' = nextId + 1
    /\ StoreCall("storeInsertResponse")
    /\ UNCHANGED <<forms, everPublished, users>>

\* an account is deleted from auth.users: users goes by ON DELETE CASCADE,
\* with it the account's forms and their responses; the responses the account
\* gave to other forms keep their rows, with user_id set to NULL
StoreDeleteUser ==
  \E uid \in users :
    LET owned == {id \in DOMAIN forms : forms[id].exists /\ forms[id].owner_id = uid}
    IN /\ users' = users \ {uid}
       /\ forms' = [id \in DOMAIN forms |-> IF id \in owned THEN NoRow ELSE forms[id]]
       /\ responses' = SetNull(Cascade(responses, owned), uid)
       /\ StoreCall("storeDeleteUser")
       /\ UNCHANGED <<everPublished, nextId>>

NextStore ==
  \/ (now < MaxClock - 1 /\ Tick)
  \/ StoreInsertForm \/ StoreUpdateForm \/ StoreDeleteForm
  \/ StoreInsertResponse \/ StoreDeleteUser

SpecStore == InitStore /\ [][NextStore]_vars

\* handleSave as any account's builder runs it, the request and the store's
\* answer in one step.  The builder's own state is the state of one browser;
\* of the other accounts' builders only what they send to the store is
\* followed: the formData below, on the create screen or on /edit/<id>.
SentFormData ==
  {[title |-> t, description |-> EmptyStr, fields |-> <<>>, is_published |-> p] :
     t \in {<<"T">>, <<"U">>}, p \in BOOLEAN}

\* .from('forms').insert(formPayload) by uid, on the create screen
UserSaveCreatedBy(uid, id, data, publish) ==
  LET new == RowOf(formPayload(data, publish, uid))
  IN /\ uid \in users
     /\ ~forms[id].exists
     /\ FormsInsertPolicy(uid, new)
     /\ forms' = [forms EXCEPT ![id] = new]
     /\ everPublished' = IF new.is_published THEN everPublished \cup {id}
                         ELSE everPublished
     /\ StoreCall("userSaveCreated")
     /\ UNCHANGED <<responses, users, nextId>>

UserSaveCreated ==
  \E uid \in Accounts, id \in DOMAIN forms, data \in SentFormData, publish \in BOOLEAN :
    UserSaveCreatedBy(uid, id, data, publish)

\* whether .update(formPayload).eq('id', id) by uid reaches a row and passes
UserSaveAllowed(uid, id, data, publish) ==
  /\ forms[id].exists
  /\ FormsSelectPolicy(uid, forms[id])
  /\ FormsUpdatePolicy(uid, forms[id], RowOf(formPayload(data, publish, uid)))

\* .from('forms').update(formPayload).eq('id', id) by uid, on /edit/<id>
UserSaveUpdatedBy(uid, id, data, publish) ==
  LET new == RowOf(formPayload(data, publish, uid))
  IN /\ uid \in users
     /\ UserSaveAllowed(uid, id, data, publish)
     /\ forms' = [forms EXCEPT ![id] = new]
     /\ everPublished' = IF new.is_published THEN everPublished \cup {id}
                         ELSE everPublished
     /\ StoreCall("userSaveUpdated")
     /\ UNCHANGED <<responses, users, nextId>>

UserSaveUpdated ==
  \E uid \in Accounts, id \in DOMAIN forms, data \in SentFormData, publish \in BOOLEAN :
    UserSaveUpdatedBy(uid, id, data, publish)

\* the update reaches no row (.single() answers with an error), or nobody is
\* signed in ('User not authenticated'): the toast, and the store as it was
UserSaveRefusedBy(uid, id, data, publish) ==
  /\ SignedInOrAnonymous(uid)
  /\ uid = NoUser \/ ~UserSaveAllowed(uid, id, data, publish)
  /\ StoreCall("userSaveRefused")
  /\ UNCHANGED storeVars

UserSaveRefused ==
  \E uid \in Callers, id \in DOMAIN forms, data \in SentFormData, publish \in BOOLEAN :
    UserSaveRefusedBy(uid, id, data, publish)

\* saves by every account, forms deleted from the dashboard, accounts deleted
NextOwner ==
  \/ UserSaveCreated \/ UserSaveUpdated \/ UserSaveRefused
  \/ StoreDeleteForm \/ StoreDeleteUser

SpecOwner == InitStore /\ [][NextOwner]_vars

NextSeq == Tick \/ AddField \/ SetLabel \/ SetRequired \/ RemoveField \/ MoveField

SpecSeq == Init /\ [][NextSeq]_vars

\* the field cards in full (type, options, placeholder) on a form of fewer
\* fields and a shorter clock; the label and the Required switch, plain merges
\* of one key, are exercised by NextSeq
NextField ==
  \/ (now < MaxClock - 1 /\ Tick)
  \/ (Len(formData.fields) < MaxTyped /\ AddField)
  \/ ChangeType(FieldTypes) \/ AddOption \/ UpdateOption \/ RemoveOption
  \/ SetPlaceholder
  \/ RemoveField \/ MoveField

SpecField == Init /\ [][NextField]_vars

\* saving and fetching, on a form of fewer fields and field types; the clock
\* advances between two addField calls or not at all
NextSave ==
  \/ (/\ now < MaxClock - 1
      /\ Len(formData.fields) > 0
      /\ formData.fields[Len(formData.fields)].id = now
      /\ Tick)
  \/ (Len(formData.fields) < MaxTyped /\ AddField)
  \/ ChangeType(SavedTypes)
  \/ SetTitle \/ SetDescription
  \/ SaveNoTitle \/ SaveStart \/ SaveUpdated \/ SaveCreated \/ SaveFail
  \/ FetchForm \/ FetchFail \/ OpenEdit

SpecSave == Init /\ [][NextSave]_vars

----------------------------------------------------------------------------
(* The viewer's actions *)

\* the inserts one viewer session is followed through
MaxSubmits == 2

\* the form ids a viewer's URL carries: a stored form's, or one of no form
ViewFormIds == FormIds \cup {"unknown"}

\* what the respondent types into a field, and into the email and name inputs
AnswerTexts == {<<>>, <<" ">>, <<"a">>}
SentTexts == {<<"a">>}
SentEmails == {<<"e">>}
SentNames == {<<"n">>}
EmailTexts == {<<" ">>, <<"e">>}
NameTexts == {<<" ">>, <<"n">>}

\* forms the builder saves: a required short text and an optional checkbox,
\* and the same with the checkbox required and an option left as added
TextField(id, required) ==
  [id |-> id, type |-> "short_text", label |-> <<"L">>, required |-> required,
   options |-> OptAbsent, placeholder |-> EmptyStr]
CheckboxField(id, required, options) ==
  [id |-> id, type |-> "checkbox", label |-> <<"L">>, required |-> required,
   options |-> OptArray(options), placeholder |-> EmptyStr]
ScenarioFields == <<TextField(0, TRUE), CheckboxField(1, FALSE, << <<"a">> >>)>>
\* a checkbox whose two options were given the same text
SameTextFields == <<CheckboxField(1, TRUE, << <<"a">>, <<"a">> >>)>>
ViewedForms ==
  {ScenarioFields,
   <<TextField(0, TRUE), CheckboxField(1, TRUE, << <<"a">>, EmptyStr >>)>>,
   SameTextFields}

\* a viewer opens /form/<id> of a stored form or of none, signed in or not,
\* while the owner has the form open in the builder
InitViewer(fieldSeqs) ==
  \E fields \in fieldSeqs, published \in BOOLEAN :
    LET row == [exists |-> TRUE, title |-> <<"T">>, description |-> EmptyStr,
                fields |-> fields, is_published |-> published,
                owner_id |-> BuilderUser]
    IN /\ forms = [id \in FormIds |-> row]
       /\ everPublished = IF published THEN FormIds ELSE {}
       /\ formData = FetchedFormData(row)
  /\ now = 0
  /\ formId \in FormIds
  /\ screen = "builder"
  /\ loading = FALSE
  /\ saving = FALSE
  /\ saveReq = NoSave
  /\ lastSaved = [valid |-> FALSE, data |-> EmptyFormData]
  /\ lastOp = [op |-> "init", id |-> NoId]
  /\ respondent \in Respondents
  /\ vFormId \in ViewFormIds
  /\ vForm = NoViewed
  /\ vLoading = TRUE
  /\ submitting = FALSE
  /\ submitted = FALSE
  /\ answers = NoAnswers
  /\ errors = NoErrors
  /\ startTime = now
  /\ userEmail = EmptyStr
  /\ userName = EmptyStr
  /\ sessionPc = "getUser"
  /\ insertReq = NoInsert
  /\ issued = 0
  /\ responses = <<>>
  /\ users = Accounts
  /\ nextId = 1

\* the form is rendered: not the spinner, not "Form Not Found", not "Thank You!"
FormShown == vFormId # NoForm /\ ~vLoading /\ vForm.loaded /\ ~submitted

\* the viewer's fetchForm is answered with the row
ViewerFetch ==
  /\ vFormId # NoForm
  /\ vLoading
  /\ SelectPublished(respondent, vFormId).exists
  /\ vForm' = ViewedForm(vFormId, SelectPublished(respondent, vFormId))
  /\ vLoading' = FALSE
  /\ lastOp' = [op |-> "viewerFetch", id |-> NoId]
  /\ UNCHANGED <<now, respondent, builderVars, storeVars>>
  /\ UNCHANGED <<vFormId, submitting, submitted, answers, errors, startTime,
                 userEmail, userName, sessionPc, insertReq, issued>>

\* the viewer's fetchForm fails (no published row, or the network): the toast
ViewerFetchFail ==
  /\ vFormId # NoForm
  /\ vLoading
  /\ vLoading' = FALSE
  /\ lastOp' = [op |-> "viewerFetchFailed", id |-> NoId]
  /\ UNCHANGED <<now, respondent, builderVars, storeVars>>
  /\ UNCHANGED <<vFormId, vForm, submitting, submitted, answers, errors, startTime,
                 userEmail, userName, sessionPc, insertReq, issued>>

\* checkUserSession: getUser is answered
CheckUserSessionUser ==
  /\ sessionPc = "getUser"
  /\ IF respondent = NoUser
     THEN /\ sessionPc' = "done"
          /\ UNCHANGED userEmail
     ELSE /\ sessionPc' = "profile"
          /\ userEmail' = EmailOf(respondent)
  /\ lastOp' = [op |-> "checkUser", id |-> NoId]
  /\ UNCHANGED <<now, respondent, builderVars, storeVars>>
  /\ UNCHANGED <<vFormId, vForm, vLoading, submitting, submitted, answers, errors,
                 startTime, userName, insertReq, issued>>

\* checkUserSession: the profile is answered, or the select fails
CheckUserSessionProfile ==
  \E ok \in BOOLEAN :
    /\ sessionPc = "profile"
    /\ sessionPc' = "done"
    /\ userName' = IF ok THEN ProfileName(respondent) ELSE EmptyStr
    /\ lastOp' = [op |-> "checkProfile", id |-> NoId]
    /\ UNCHANGED <<now, respondent, builderVars, storeVars>>
    /\ UNCHANGED <<vFormId, vForm, vLoading, submitting, submitted, answers, errors,
                   startTime, userEmail, insertReq, issued>>

\* updateAnswer(key, a), from the errors of the render the input was changed in
updateAnswerClearsErrors(key, a) ==
  /\ FormShown
  /\ answers' = WithKey(answers, key, a)
  /\ errors' = NoErrors
  /\ lastOp' = [op |-> "updateAnswer", id |-> key[2]]
  /\ UNCHANGED <<now, respondent, builderVars, storeVars>>
  /\ UNCHANGED <<vFormId, vForm, vLoading, submitting, submitted, startTime,
                 userEmail, userName, sessionPc, insertReq, issued>>
updateAnswer(key, a) ==
  /\ FormShown
  /\ answers' = WithKey(answers, key, a)
  /\ errors' = IF key \in DOMAIN errors THEN WithoutKey(errors, key) ELSE errors
  /\ lastOp' = [op |-> "updateAnswer", id |-> key[2]]
  /\ UNCHANGED <<now, respondent, builderVars, storeVars>>
  /\ UNCHANGED <<vFormId, vForm, vLoading, submitting, submitted, startTime,
                 userEmail, userName, sessionPc, insertReq, issued>>

\* the input of a short_text field
TypeAnswer(texts) ==
  \E i \in 1..Len(vForm.fields), value \in texts :
    /\ vForm.fields[i].type = "short_text"
    /\ updateAnswer(FieldKey(vForm.fields[i].id), StrAns(value))

\* answers[field.id] || []
SelectedOptions(a) == IF a.kind = "arr" THEN a.v ELSE <<>>

\* selectedOptions.includes(option)
Includes(a, option) == \E j \in 1..Len(a) : a[j] = option

\* currentOptions.filter(o => o !== option)
WithoutOption(a, option) == LET keep(o) == o # option IN SelectSeq(a, keep)

\* onCheckedChange of an option's checkbox: the box shows
\* includes(option), so a click asks for the opposite
toggleOptionAppends(currentOptions, option) == Append(currentOptions, option)
toggleOption(currentOptions, option) ==
  IF ~Includes(currentOptions, option)
  THEN Append(currentOptions, option)
  ELSE WithoutOption(currentOptions, option)

\* the k-th checkbox of a checkbox field is clicked
ToggleOption ==
  \E i \in 1..Len(vForm.fields) :
    \E k \in 1..Len(OptionsOrEmpty(vForm.fields[i].options)) :
      LET field == vForm.fields[i]
          option == OptionsOrEmpty(field.options)[k]
          currentOptions == SelectedOptions(Get(answers, FieldKey(field.id)))
      IN /\ field.type = "checkbox"
         /\ updateAnswer(FieldKey(field.id),
                         ArrAns(toggleOption(currentOptions, option)))

\* the email and name inputs, rendered while no identity value is known
TypeEmail(texts) ==
  \E value \in texts :
    /\ ~StrTruthy(userEmail)
    /\ updateAnswer(UserEmailKey, StrAns(value))

TypeName(texts) ==
  \E value \in texts :
    /\ ~StrTruthy(userName)
    /\ updateAnswer(UserNameKey, StrAns(value))

\* handleSubmit when validateForm returns false: the errors and the toast
SubmitInvalid ==
  /\ FormShown
  /\ ~submitting
  /\ validateForm(vForm.fields, answers, userEmail, userName) # NoErrors
  /\ errors' = validateForm(vForm.fields, answers, userEmail, userName)
  /\ lastOp' = [op |-> "submitInvalid", id |-> NoId]
  /\ UNCHANGED <<now, respondent, builderVars, storeVars>>
  /\ UNCHANGED <<vFormId, vForm, vLoading, submitting, submitted, answers, startTime,
                 userEmail, userName, sessionPc, insertReq, issued>>

\* handleSubmit when validateForm returns true, up to the insert it awaits;
\* the submit button is disabled while submitting.  The row is built from the
\* answers and identity of the render the form was submitted in.
SubmitStartWhileSubmitting ==
  /\ FormShown
  /\ issued < MaxSubmits
  /\ validateForm(vForm.fields, answers, userEmail, userName) = NoErrors
  /\ errors' = NoErrors
  /\ submitting' = TRUE
  /\ insertReq' = [active |-> TRUE,
                   row |-> submissionData(vFormId, respondent, answers, userEmail,
                                          userName, now, startTime)]
  /\ issued' = issued + 1
  /\ lastOp' = [op |-> "submitStart", id |-> NoId]
  /\ UNCHANGED <<now, respondent, builderVars, storeVars>>
  /\ UNCHANGED <<vFormId, vForm, vLoading, submitted, answers, startTime,
                 userEmail, userName, sessionPc>>
SubmitStart ==
  /\ FormShown
  /\ ~submitting
  /\ issued < MaxSubmits
  /\ validateForm(vForm.fields, answers, userEmail, userName) = NoErrors
  /\ errors' = NoErrors
  /\ submitting' = TRUE
  /\ insertReq' = [active |-> TRUE,
                   row |-> submissionData(vFormId, respondent, answers, userEmail,
                                          userName, now, startTime)]
  /\ issued' = issued + 1
  /\ lastOp' = [op |-> "submitStart", id |-> NoId]
  /\ UNCHANGED <<now, respondent, builderVars, storeVars>>
  /\ UNCHANGED <<vFormId, vForm, vLoading, submitted, answers, startTime,
                 userEmail, userName, sessionPc>>

\* the insert passes the policy, is applied and answered
SubmitAccepted ==
  /\ insertReq.active
  /\ ResponsesInsertPolicy(insertReq.row)
  /\ ResponsesForeignKeys(insertReq.row)
  /\ responses' = Append(responses, StoredResponse(insertReq.row, nextId, now))
  /\ nextId' = nextId + 1
  /\ submitted' = TRUE
  /\ submitting' = FALSE
  /\ insertReq' = NoInsert
  /\ lastOp' = [op |-> "submitAccepted", id |-> NoId]
  /\ UNCHANGED <<now, respondent, builderVars, forms, everPublished, users>>
  /\ UNCHANGED <<vFormId, vForm, vLoading, answers, errors, startTime,
                 userEmail, userName, sessionPc, issued>>

\* what a failed insert leaves alone
SubmitErrorClearsAnswers(op) ==
  /\ submitting' = FALSE
  /\ insertReq' = NoInsert
  /\ answers' = NoAnswers
  /\ lastOp' = [op |-> op, id |-> NoId]
  /\ UNCHANGED <<now, respondent, builderVars, storeVars>>
  /\ UNCHANGED <<vFormId, vForm, vLoading, submitted, errors, startTime,
                 userEmail, userName, sessionPc, issued>>
SubmitError(op) ==
  /\ submitting' = FALSE
  /\ insertReq' = NoInsert
  /\ lastOp' = [op |-> op, id |-> NoId]
  /\ UNCHANGED <<now, respondent, builderVars, storeVars>>
  /\ UNCHANGED <<vFormId, vForm, vLoading, submitted, answers, errors, startTime,
                 userEmail, userName, sessionPc, issued>>

\* the insert is refused by the policy
SubmitRejected ==
  /\ insertReq.active
  /\ ~(ResponsesInsertPolicy(insertReq.row) /\ ResponsesForeignKeys(insertReq.row))
  /\ SubmitError("submitRejected")

\* the request does not reach the store
SubmitFail ==
  /\ insertReq.active
  /\ SubmitError("submitFailed")

\* answering on a published or unpublished form while its owner publishes and
\* unpublishes it
NextViewer ==
  \/ Tick
  \/ ViewerFetch \/ ViewerFetchFail
  \/ CheckUserSessionUser \/ CheckUserSessionProfile
  \/ TypeAnswer(SentTexts) \/ TypeEmail(SentEmails) \/ TypeName(SentNames)
  \/ SubmitInvalid \/ SubmitStart \/ SubmitAccepted \/ SubmitRejected \/ SubmitFail
  \/ TogglePublished \/ SaveStart \/ SaveUpdated \/ SaveFail

SpecViewer == InitViewer({ScenarioFields}) /\ [][NextViewer]_vars

\* validation, over all the respondent may type; the form stays as published
\* and the clock is not followed
NextValidate ==
  \/ ViewerFetch \/ ViewerFetchFail
  \/ CheckUserSessionUser \/ CheckUserSessionProfile
  \/ TypeAnswer(AnswerTexts) \/ ToggleOption
  \/ TypeEmail(EmailTexts) \/ TypeName(NameTexts)
  \/ SubmitInvalid \/ SubmitStart \/ SubmitAccepted \/ SubmitFail

SpecValidate == InitViewer(ViewedForms) /\ [][NextValidate]_vars

\* answering a form while its owner deletes it from the dashboard
NextDelete ==
  \/ ViewerFetch \/ ViewerFetchFail
  \/ CheckUserSessionUser \/ CheckUserSessionProfile
  \/ TypeAnswer(SentTexts) \/ TypeEmail(SentEmails) \/ TypeName(SentNames)
  \/ SubmitInvalid \/ SubmitStart \/ SubmitAccepted \/ SubmitRejected \/ SubmitFail
  \/ StoreDeleteForm

SpecDelete == InitViewer({ScenarioFields}) /\ [][NextDelete]_vars

----------------------------------------------------------------------------
(* Claims about the field sequence *)

\* the position of the first field carrying the id
FirstWithId(fields, id) ==
  CHOOSE i \in 1..Len(fields) :
    /\ fields[i].id = id
    /\ \A j \in 1..Len(fields) : fields[j].id = id => i <= j

HasId(fields, id) == \E i \in 1..Len(fields) : fields[i].id = id

\* C1: moveField(id, direction) on a sequence that contains id leaves it
\* unchanged for 'up' on the first field and 'down' on the last one; otherwise
\* the field and its neighbour in that direction exchange positions and every
\* other field keeps its position, the length being the same.
C1_MoveFieldSwapsNeighbours ==
  \A id \in 0..MaxClock, dir \in {"up", "down"} :
    HasId(formData.fields, id) =>
      LET fields == formData.fields
          r == moveField(fields, id, dir)
          i == FirstWithId(fields, id)
          j == IF dir = "up" THEN i - 1 ELSE i + 1
      IN /\ Len(r) = Len(fields)
         /\ DOMAIN r = DOMAIN fields
         /\ IF j < 1 \/ j > Len(fields)
            THEN r = fields
            ELSE /\ r[i] = fields[j]
                 /\ r[j] = fields[i]
                 /\ \A k \in 1..Len(fields) : k \notin {i, j} => r[k] = fields[k]

\* a move between three fields of distinct ids has happened
C1_Witness ==
  /\ lastOp.op = "moveField"
  /\ Len(formData.fields) >= 3
  /\ \A i, j \in 1..Len(formData.fields) :
       i # j => formData.fields[i].id # formData.fields[j].id

\* C9: addField appends one short_text, not required field at the end and
\* leaves the existing fields as they are, and the field ids of the sequence
\* are pairwise distinct in every state the builder reaches.
C9_AddFieldUniqueIds ==
  LET fields == formData.fields
      r == addField(fields, now)
  IN /\ Len(r) = Len(fields) + 1
     /\ r[Len(r)].type = "short_text"
     /\ r[Len(r)].required = FALSE
     /\ \A k \in 1..Len(fields) : r[k] = fields[k]
     /\ \A i, j \in 1..Len(fields) : i # j => fields[i].id # fields[j].id

----------------------------------------------------------------------------
(* Claims about a field's type and options *)

OptionsDefined(field) == field.options.st = "array"

\* C7: in every state the builder reaches from the empty form, a field has
\* options defined if and only if its type is one of the three choice types.
C7_OptionsIffChoice ==
  \A i \in 1..Len(formData.fields) :
    OptionsDefined(formData.fields[i]) <=>
      formData.fields[i].type \in {"multiple_choice", "checkbox", "dropdown"}

\* the i-th field after its Field Type select has been set to value
TypeChanged(i, value) ==
  updateField(formData.fields, formData.fields[i].id,
              typeUpdates(formData.fields[i], value))[i]

\* C8: a change into a choice type seeds ["Option 1", "Option 2"]
\* when the field has no options, be they undefined or an empty sequence,
\* keeps existing options, and a change to another type clears them.
C8_SeedsWhenUndefinedOrEmpty ==
  \A i \in 1..Len(formData.fields), value \in FieldTypes :
    LET f == formData.fields[i]
        r == TypeChanged(i, value)
        none == ~OptionsDefined(f) \/ f.options.v = <<>>
    IN /\ r.type = value
       /\ (IsChoice(value) /\ none) => r.options = OptArray(<<Option1, Option2>>)
       /\ (IsChoice(value) /\ ~none) => r.options = f.options
       /\ ~IsChoice(value) => ~OptionsDefined(r)

----------------------------------------------------------------------------
(* Claims about saving and fetching *)

\* what reading field.options yields: undefined when the key is absent too
ReadOptions(field) == IF field.options.st = "array" THEN field.options ELSE OptUndefined

\* C10: fetching a form after a successful save, with no other save in
\* between, yields the saved fields in the same order with the same id, type,
\* label, required, options and placeholder, and the same title and description.
C10_SaveFetchRoundTrip ==
  (lastOp.op = "fetchForm" /\ lastSaved.valid) =>
    LET got == formData
        saved == lastSaved.data
    IN /\ got.title = saved.title
       /\ got.description = saved.description
       /\ Len(got.fields) = Len(saved.fields)
       /\ \A i \in 1..Len(saved.fields) :
            /\ got.fields[i].id = saved.fields[i].id
            /\ got.fields[i].type = saved.fields[i].type
            /\ got.fields[i].label = saved.fields[i].label
            /\ got.fields[i].required = saved.fields[i].required
            /\ ReadOptions(got.fields[i]) = ReadOptions(saved.fields[i])
            /\ got.fields[i].placeholder = saved.fields[i].placeholder

\* a form of two fields, one with options and one whose options key was set
\* to undefined, and with a description, has been saved and fetched
C10_Witness ==
  /\ lastOp.op = "fetchForm"
  /\ lastSaved.valid
  /\ lastSaved.data.description # EmptyStr
  /\ Len(lastSaved.data.fields) = 2
  /\ lastSaved.data.fields[1].id # lastSaved.data.fields[2].id
  /\ \E i, j \in 1..2 :
       /\ lastSaved.data.fields[i].options.st = "array"
       /\ lastSaved.data.fields[j].options.st = "undefined"

----------------------------------------------------------------------------
(* Claims about the viewer *)

\* the answer the rule calls blank: absent, an empty sequence, or a string
\* that is empty after trimming
BlankAnswer(a) ==
  \/ a.kind = "undefined"
  \/ (a.kind = "arr" /\ Len(a.v) = 0)
  \/ (a.kind = "str" /\ Trim(a.v[1]) = EmptyStr)

RequiredBlankKeys ==
  {FieldKey(vForm.fields[i].id) :
     i \in {j \in 1..Len(vForm.fields) :
              /\ vForm.fields[j].required
              /\ BlankAnswer(Get(answers, FieldKey(vForm.fields[j].id)))}}

RequiredKeys ==
  {FieldKey(vForm.fields[i].id) :
     i \in {j \in 1..Len(vForm.fields) : vForm.fields[j].required}}

\* C2: validation reports an error for a field if and only if the field is
\* required and its answer is absent, an empty sequence, or a string that is
\* empty after trimming; a required checkbox with a non-empty sequence of
\* selected options and a field that is not required never fail.
C2_FailsIffRequiredAndBlank ==
  vForm.loaded =>
    \A i \in 1..Len(vForm.fields) :
      LET key == FieldKey(vForm.fields[i].id)
      IN (key \in DOMAIN validateForm(vForm.fields, answers, userEmail, userName))
           <=> (key \in RequiredBlankKeys)

PublishedInStore(id) ==
  id \in DOMAIN forms /\ forms[id].exists /\ forms[id].is_published

\* C4: however the owner's saves and the respondent's submissions interleave,
\* a response row is inserted only while its form is published in the store:
\* an insert that arrives after the form was unpublished is refused, and every
\* response belongs to a form that has been published at some time.
C4_InsertOnlyWhilePublished ==
  /\ [][responses' # responses =>
          /\ Len(responses') = Len(responses) + 1
          /\ SubSeq(responses', 1, Len(responses)) = responses
          /\ PublishedInStore(responses'[Len(responses')].form_id)]_vars
  /\ [](\A i \in 1..Len(responses) : responses[i].form_id \in everPublished)

C4_Witness ==
  /\ lastOp.op = "submitRejected"
  /\ vForm.loaded
  /\ issued = 1
  /\ ~PublishedInStore(vFormId)
  /\ responses = <<>>

NotFound == vFormId # NoForm /\ ~vLoading /\ ~vForm.loaded

\* C5: when the viewer's fetch is answered for a form id that is missing or
\* whose form is unpublished, the viewer is in "Form Not Found" (loading
\* finished, no form held); it stays there, and the session sends no insert.
C5_NotFoundIsTerminal ==
  /\ [][(vLoading /\ ~vLoading' /\ ~PublishedInStore(vFormId)) => NotFound']_vars
  /\ [][NotFound => NotFound']_vars
  /\ [](NotFound => /\ issued = 0
                    /\ ~insertReq.active
                    /\ ~submitting
                    /\ ~submitted
                    /\ responses = <<>>)

C5_Witness ==
  /\ NotFound
  /\ lastOp.op = "saveUpdated"
  /\ PublishedInStore(vFormId)

\* the scenario: the form of one required short_text and one optional
\* checkbox, the checkbox left untouched
ScenarioAnswered ==
  /\ vForm.loaded
  /\ vForm.fields = ScenarioFields
  /\ FieldKey(1) \notin DOMAIN answers

\* C6, as stated: a successful submission of the scenario creates exactly one
\* response row whose answers are exactly {<fieldId>: <text>}, with
\* metadata.time_taken >= 0.
C6_AnswersOnlyTheField ==
  (lastOp.op = "submitAccepted" /\ ScenarioAnswered) =>
    /\ Len(responses) = 1
    /\ DOMAIN responses[1].answers = {FieldKey(0)}
    /\ responses[1].metadata.time_taken >= 0

\* C6, amended: a successful submission of the scenario creates exactly one
\* response row whose answers are {<fieldId>: <text>, user_email, user_name}
\* and no other key, where user_email and user_name are the signed-in
\* respondent's values where known and the typed ones otherwise, with
\* metadata.time_taken >= 0.
C6_AnswersTheFieldAndIdentity ==
  /\ (lastOp.op = "submitStart" /\ ScenarioAnswered) =>
       /\ insertReq.row.answers =
            [k \in {FieldKey(0), UserEmailKey, UserNameKey} |->
               IF k = UserEmailKey /\ StrTruthy(userEmail) THEN StrAns(userEmail)
               ELSE IF k = UserNameKey /\ StrTruthy(userName) THEN StrAns(userName)
               ELSE answers[k]]
       /\ insertReq.row.answers[FieldKey(0)].kind = "str"
       /\ insertReq.row.metadata.time_taken >= 0
  /\ (lastOp.op = "submitAccepted" /\ ScenarioAnswered) =>
       /\ Len(responses) = 1
       /\ DOMAIN responses[1].answers = {FieldKey(0), UserEmailKey, UserNameKey}
       /\ responses[1].metadata.time_taken >= 0

C6_Witness ==
  /\ lastOp.op = "submitAccepted"
  /\ ScenarioAnswered
  /\ respondent = NoUser
  /\ Len(responses) = 1
  /\ responses[1].answers[FieldKey(0)] = StrAns(<<"a">>)
  /\ responses[1].answers[UserEmailKey] = StrAns(<<"e">>)
  /\ responses[1].metadata.time_taken = 1

\* the options of a field, as a set
OptionSet(field) ==
  {OptionsOrEmpty(field.options)[k] : k \in 1..Len(OptionsOrEmpty(field.options))}

DuplicateFree(a) == \A j, k \in 1..Len(a) : a[j] = a[k] => j = k

\* C11: the stored answer of a checkbox field is an ordered sequence of
\* strings, duplicate-free, each one of the field's options; selecting an
\* option that is not selected and then deselecting it gives back the answer
\* there was (same members, same order), also where two options have the same
\* text.
C11_CheckboxAnswerIsSubsetAndToggleUndoes ==
  vForm.loaded =>
    \A i \in 1..Len(vForm.fields) :
      LET field == vForm.fields[i]
          answer == Get(answers, FieldKey(field.id))
          currentOptions == SelectedOptions(answer)
      IN field.type = "checkbox" =>
           /\ answer.kind \in {"undefined", "arr"}
           /\ DuplicateFree(currentOptions)
           /\ \A j \in 1..Len(currentOptions) : currentOptions[j] \in OptionSet(field)
           /\ \A option \in OptionSet(field) :
                ~Includes(currentOptions, option) =>
                  /\ Includes(toggleOption(currentOptions, option), option)
                  /\ toggleOption(toggleOption(currentOptions, option), option)
                       = currentOptions

C11_Witness ==
  /\ vForm.fields = SameTextFields
  /\ lastOp.op = "updateAnswer"
  /\ Get(answers, FieldKey(1)) = ArrAns(<<>>)

\* C12: when the store refuses a response insert, or the insert fails, the
\* handler shows the failure and nothing else: no second insert is sent, the
\* answers and the store's responses are as they were, the viewer is not in
\* the submitted state, and the form is shown with the submit button enabled
\* again.
C12_FailedInsertKeepsAnswers ==
  [][(insertReq.active /\ ~insertReq'.active /\ ~submitted') =>
       /\ lastOp'.op \in {"submitRejected", "submitFailed"}
       /\ answers' = answers
       /\ errors' = errors
       /\ responses' = responses
       /\ issued' = issued
       /\ ~submitting'
       /\ FormShown']_vars

C12_Witness ==
  /\ lastOp.op = "submitStart"
  /\ issued = 2
  /\ insertReq.active
  /\ responses = <<>>

\* C13: when a save fails, the handler shows the failure and sets saving to
\* false; it sends no second request and leaves the title, the description,
\* the fields, is_published, the form id and the store as they were.  The
\* field operations are defined on every sequence, for ids of the form and
\* for ids of no field: none of them can fail.
C13_FailedSaveKeepsFormData ==
  /\ [][(saveReq.active /\ ~saveReq'.active
            /\ lastOp'.op \notin {"saveUpdated", "saveCreated"}) =>
          /\ lastOp'.op = "saveFailed"
          /\ formData' = formData
          /\ formId' = formId
          /\ screen' = screen
          /\ forms' = forms
          /\ ~saving']_vars
  /\ [](\A id \in 0..MaxClock \cup {NoId} :
          /\ Len(addField(formData.fields, id)) = Len(formData.fields) + 1
          /\ Len(updateField(formData.fields, id, [required |-> TRUE]))
               = Len(formData.fields)
          /\ Len(removeField(formData.fields, id)) <= Len(formData.fields)
          /\ \A dir \in {"up", "down"} :
               Len(moveField(formData.fields, id, dir)) = Len(formData.fields))

C13_Witness ==
  /\ lastOp.op = "saveFailed"
  /\ formData.fields # <<>>
  /\ StrTruthy(Trim(formData.title))
  /\ ~saving
  /\ ~forms["f1"].exists

----------------------------------------------------------------------------
(* Claims about the store *)

\* C14: for every caller and every stored form, the caller can update the form
\* if and only if the caller is its owner, can delete it if and only if the
\* caller is its owner, and can read it if and only if the caller is its owner
\* or the form is published; a caller can insert a form only with owner_id
\* equal to the caller's own identity.
C14_FormsAccess ==
  \A uid \in Callers :
    SignedInOrAnonymous(uid) =>
      \A id \in DOMAIN forms :
        /\ forms[id].exists =>
             /\ (\E owner \in Accounts, published \in BOOLEAN :
                    ENABLED StoreUpdateFormBy(uid, id, owner, published))
                  <=> (uid # NoUser /\ uid = forms[id].owner_id)
             /\ (ENABLED StoreDeleteFormBy(uid, id))
                  <=> (uid # NoUser /\ uid = forms[id].owner_id)
             /\ SelectForm(uid, id).exists
                  <=> ((uid # NoUser /\ uid = forms[id].owner_id)
                         \/ forms[id].is_published)
        /\ ~forms[id].exists =>
             \A owner \in users, published \in BOOLEAN :
               (ENABLED StoreInsertFormBy(uid, id, owner, published))
                 <=> (uid # NoUser /\ uid = owner)

C14_Witness ==
  /\ lastOp.op = "storeUpdateForm"
  /\ forms["f1"].exists /\ forms["f1"].owner_id = BuilderUser
  /\ ~forms["f1"].is_published
  /\ forms["f2"].exists /\ forms["f2"].owner_id = "u2"
  /\ forms["f2"].is_published
  /\ users = Accounts

\* C15: a caller can read a response if and only if the caller owns the form
\* the response belongs to; a respondent who does not own the form, signed in
\* or not, reads back no response, their own included.
C15_ResponsesReadByOwnerOnly ==
  \A uid \in Callers :
    SignedInOrAnonymous(uid) =>
      \A i \in 1..Len(responses) :
        LET r == responses[i]
            read == SelectResponses(uid, r.form_id)
        IN (\E j \in 1..Len(read) : read[j] = r)
             <=> (uid # NoUser /\ forms[r.form_id].exists
                    /\ uid = forms[r.form_id].owner_id)

C15_Witness ==
  /\ lastOp.op = "storeInsertResponse"
  /\ Len(responses) = 1
  /\ responses[1].user_id = "u2"
  /\ forms[responses[1].form_id].owner_id = BuilderUser
  /\ SelectResponses("u2", responses[1].form_id) = <<>>
  /\ SelectResponses(BuilderUser, responses[1].form_id) = responses

\* the rows of a table, as a set
Rows(table) == {table[i] : i \in 1..Len(table)}

\* the form of the row is deleted in this step
FormDeleted(r) ==
  /\ forms[r.form_id].exists
  /\ ~forms'[r.form_id].exists

\* C16, as stated: in every step of the store (response inserts, form saves,
\* form deletions, user deletions) a stored response keeps its form_id,
\* user_id, answers, metadata and submitted_at, or is removed because its form
\* is deleted in that step.
C16_ResponsesNeverChange ==
  [][\A r \in Rows(responses) :
       \/ r \in Rows(responses')
       \/ /\ \A q \in Rows(responses') : q.id # r.id
          /\ FormDeleted(r)]_vars

\* C16, amended: a stored response keeps its form_id, answers, metadata and
\* submitted_at; its user_id changes only to null, when the account it names
\* is deleted; the row is removed only because its form is deleted in that
\* step (by its owner, or with the owner's account).
C16_ResponsesChangeOnlyUserIdToNull ==
  [][\A r \in Rows(responses) :
       \/ r \in Rows(responses')
       \/ /\ [r EXCEPT !.user_id = NoUser] \in Rows(responses')
          /\ r.user_id \in users
          /\ r.user_id \notin users'
       \/ /\ \A q \in Rows(responses') : q.id # r.id
          /\ FormDeleted(r)]_vars

C16_Witness ==
  /\ lastOp.op = "storeDeleteUser"
  /\ users = {BuilderUser}
  /\ Len(responses) = 2
  /\ \A i \in 1..2 : responses[i].user_id = NoUser
  /\ \E id \in DOMAIN forms : ~forms[id].exists /\ id \in everPublished

\* C17: in every reachable state each response's form_id is the id of a form
\* that exists, and the step that deletes a form leaves none of its responses,
\* also when an insert for the form is awaited while the form is deleted.
C17_ResponsesReferToForms ==
  /\ [](\A r \in Rows(responses) :
          r.form_id \in DOMAIN forms /\ forms[r.form_id].exists)
  /\ [][\A id \in DOMAIN forms :
          (forms[id].exists /\ ~forms'[id].exists) =>
            \A q \in Rows(responses') : q.form_id # id]_vars

C17_Witness ==
  /\ lastOp.op = "submitRejected"
  /\ vForm.loaded
  /\ ~forms[vFormId].exists
  /\ issued = 2
  /\ responses = <<>>

\* validateForm gives key an error
Fails(key) == key \in DOMAIN validateForm(vForm.fields, answers, userEmail, userName)

\* C18: while the viewer knows no email (no name) of the respondent,
\* user_email (user_name) fails validation if and only if the typed value is
\* absent, empty or whitespace-only, as a required field does; once a
\* non-empty email (name) is known, it never fails.  A submit attempt in
\* which either fails sets its error and sends no insert, and an insert is
\* sent only when neither fails.
C18_IdentityKeysValidatedWhenUnknown ==
  vForm.loaded =>
    /\ Fails(UserEmailKey)
         <=> (~StrTruthy(userEmail) /\ BlankAnswer(Get(answers, UserEmailKey)))
    /\ Fails(UserNameKey)
         <=> (~StrTruthy(userName) /\ BlankAnswer(Get(answers, UserNameKey)))
    /\ lastOp.op = "submitInvalid" =>
         /\ \A key \in {UserEmailKey, UserNameKey} :
              key \in DOMAIN errors <=> Fails(key)
         /\ ~insertReq.active
    /\ lastOp.op = "submitStart" =>
         /\ ~Fails(UserEmailKey)
         /\ ~Fails(UserNameKey)
         /\ \A key \in {UserEmailKey, UserNameKey} :
              /\ key \in DOMAIN insertReq.row.answers
              /\ ~BlankAnswer(insertReq.row.answers[key])

C18_Witness ==
  /\ lastOp.op = "submitInvalid"
  /\ respondent = NoUser
  /\ Get(answers, UserEmailKey) = StrAns(<<" ">>)
  /\ DOMAIN errors = {UserEmailKey}
  /\ issued = 0

\* C19: a step that changes the errors is a submit attempt, which sets them to
\* what validation gives, or an updateAnswer, which removes the entry of the
\* key it sets and leaves every other entry as it was.
C19_UpdateAnswerClearsOneError ==
  [][errors' # errors =>
       \/ /\ lastOp'.op \in {"submitInvalid", "submitStart"}
          /\ errors' = validateForm(vForm.fields, answers, userEmail, userName)
       \/ /\ lastOp'.op = "updateAnswer"
          /\ \E key \in DOMAIN errors :
               /\ key \in DOMAIN answers'
               /\ key[2] = lastOp'.id
               /\ \A k \in DOMAIN answers' \ {key} :
                    k \in DOMAIN answers /\ answers'[k] = answers[k]
               /\ errors' = WithoutKey(errors, key)]_vars

C19_Witness ==
  /\ lastOp.op = "updateAnswer"
  /\ lastOp.id = 0
  /\ vForm.fields = ScenarioFields
  /\ respondent = NoUser
  /\ DOMAIN answers = {FieldKey(0)}
  /\ DOMAIN errors = {UserEmailKey, UserNameKey}

\* the form rows a step creates, and those it publishes
Created(id) == ~forms[id].exists /\ forms'[id].exists
Published(id) ==
  /\ forms[id].exists /\ ~forms[id].is_published
  /\ forms'[id].exists /\ forms'[id].is_published

----------------------------------------------------------------------------
(* Claims about a field's placeholder *)

\* the field object has a placeholder key: addField writes one, and the merge
\* of updateField keeps every key of the field
CarriesPlaceholder(field) == "placeholder" \in DOMAIN field

\* C21: in every state the builder reaches by addField and field updates, type
\* changes included, a field carries a placeholder only if its type is
\* short_text or paragraph.
C21_PlaceholderOnlyOnTextFields ==
  \A i \in 1..Len(formData.fields) :
    CarriesPlaceholder(formData.fields[i]) => IsText(formData.fields[i].type)

----------------------------------------------------------------------------
(* Claims about the metadata of a response *)

\* the milliseconds between the viewer's first render and now
ElapsedMs == (now - startTime) * TickMs

\* C22, as stated: the row a submit builds has tab_switches 0 and time_taken
\* equal to the whole seconds elapsed between the first render and the
\* submit, never negative.
C22_TimeTakenIsElapsedWholeSeconds ==
  [][issued' # issued =>
       /\ insertReq'.active
       /\ insertReq'.row.metadata.tab_switches = 0
       /\ insertReq'.row.metadata.time_taken = ElapsedMs \div 1000
       /\ insertReq'.row.metadata.time_taken >= 0]_vars

\* C22, amended: time_taken is the elapsed time in seconds rounded to the
\* nearest whole number, a half rounded up; the start time is the one of the
\* first render throughout the session.
C22_TimeTakenIsElapsedRounded ==
  /\ [][startTime' = startTime]_vars
  /\ [][issued' # issued =>
          LET taken == insertReq'.row.metadata.time_taken
          IN /\ insertReq'.active
             /\ insertReq'.row.metadata.tab_switches = 0
             /\ taken >= 0
             /\ ElapsedMs - 500 < 1000 * taken
             /\ 1000 * taken <= ElapsedMs + 500]_vars

C22_Witness ==
  /\ lastOp.op = "submitStart"
  /\ insertReq.active
  /\ startTime = 0
  /\ now = 1
  /\ insertReq.row.metadata.time_taken = 1
  /\ insertReq.row.metadata.tab_switches = 0

----------------------------------------------------------------------------
(* Claims about a form's owner *)

\* uid is not the owner of the stored form id
NotOwner(uid, id) == ~(forms[id].exists /\ AuthUidIs(uid, forms[id].owner_id))

\* C23: a form is created with the owner_id of the account whose save created
\* it, no step changes the owner_id of a stored form, and a save issued by an
\* account that does not own the form changes nothing in the store.
C23_OwnerIsCreatorAndOnlyOwnerSaves ==
  [][/\ \A id \in DOMAIN forms :
          (forms[id].exists /\ forms'[id].exists) =>
             forms'[id].owner_id = forms[id].owner_id
     /\ \A uid \in Accounts, id \in DOMAIN forms, data \in SentFormData,
           publish \in BOOLEAN :
          /\ UserSaveCreatedBy(uid, id, data, publish) =>
               forms'[id].exists /\ forms'[id].owner_id = uid
          /\ (UserSaveUpdatedBy(uid, id, data, publish) /\ forms' # forms) =>
               ~NotOwner(uid, id)
     /\ \A uid \in Callers, id \in DOMAIN forms, data \in SentFormData,
           publish \in BOOLEAN :
          (NotOwner(uid, id) /\ forms[id].exists) =>
             /\ ~ENABLED UserSaveUpdatedBy(uid, id, data, publish)
             /\ UserSaveRefusedBy(uid, id, data, publish) => forms' = forms]_vars

\* a save by u2 on the published form of u1 was refused
C23_Witness ==
  /\ lastOp.op = "userSaveRefused"
  /\ forms["f1"].exists
  /\ forms["f1"].owner_id = BuilderUser
  /\ forms["f1"].is_published
  /\ forms["f1"].title = <<"T">>
  /\ "u2" \in users
  /\ ~ENABLED UserSaveUpdatedBy("u2", "f1",
                [title |-> <<"U">>, description |-> EmptyStr, fields |-> <<>>,
                 is_published |-> TRUE], FALSE)

----------------------------------------------------------------------------
(* Claims about moveField and removeField *)

\* the ids no field of the sequence carries
AbsentIds(fields) == (0..(MaxClock + 1)) \ {fields[i].id : i \in 1..Len(fields)}

\* C24: moveField with an id that no field of the sequence carries leaves the
\* sequence as it was, up and down: the same length, the same fields at the
\* same positions, no undefined entry.
C24_MoveAbsentIdKeepsSequence ==
  \A id \in AbsentIds(formData.fields), direction \in {"up", "down"} :
    LET moved == moveField(formData.fields, id, direction)
    IN /\ Len(moved) = Len(formData.fields)
       /\ \A i \in 1..Len(moved) :
            moved[i] = formData.fields[i] /\ moved[i] # UndefinedField

\* the sequence without its i-th entry
WithoutPosition(fields, i) ==
  [j \in 1..(Len(fields) - 1) |-> IF j < i THEN fields[j] ELSE fields[j + 1]]

\* C25: in every state the builder reaches, removing the i-th field by its id
\* shortens the sequence by one, removes that field only and keeps the others
\* as they were and in their order; removeField with an id that no field
\* carries leaves the sequence as it was.
C25_RemoveFieldRemovesOne ==
  /\ \A i \in 1..Len(formData.fields) :
       LET removed == removeField(formData.fields, formData.fields[i].id)
       IN /\ Len(removed) = Len(formData.fields) - 1
          /\ removed = WithoutPosition(formData.fields, i)
  /\ \A id \in AbsentIds(formData.fields) :
       removeField(formData.fields, id) = formData.fields

----------------------------------------------------------------------------
(* Claims about edits made while a save is awaited *)

\* the same title and description, and the same fields in the same order, as
\* the builder reads them
SameContent(a, b) ==
  /\ a.title = b.title
  /\ a.description = b.description
  /\ Len(a.fields) = Len(b.fields)
  /\ \A i \in 1..Len(a.fields) :
       /\ a.fields[i].id = b.fields[i].id
       /\ a.fields[i].type = b.fields[i].type
       /\ a.fields[i].label = b.fields[i].label
       /\ a.fields[i].required = b.fields[i].required
       /\ ReadOptions(a.fields[i]) = ReadOptions(b.fields[i])
       /\ a.fields[i].placeholder = b.fields[i].placeholder

\* C26: what the builder holds when a save is answered with success, the edits
\* made while it was awaited included, is what it holds after the save has
\* completed: after the answer to an update, and after the fetch that follows
\* the creation of a form.
C26_EditsDuringSaveSurvive ==
  [][/\ (saveReq.active /\ ~saveReq'.active /\ lastOp'.op = "saveUpdated") =>
          SameContent(formData', formData)
     /\ (loading /\ ~loading' /\ lastOp.op = "saveCreated"
           /\ lastOp'.op = "fetchForm") =>
          SameContent(formData', formData)]_vars

----------------------------------------------------------------------------
(* Claims about the inserts of one viewer session *)

IdentityKeys == {UserEmailKey, UserNameKey}

\* a string of one character or more, or an array of one element or more
AnswerNonEmpty(a) ==
  \/ a.kind = "str" /\ a.v[1] # EmptyStr
  \/ a.kind = "arr" /\ a.v # <<>>

\* C28: the row of an insert is built from the answers validation passed in
\* the same submit attempt: under the keys of the fields it carries those
\* answers and no other, every required field of the loaded form has a
\* non-empty answer in it, and the row is not changed by what the respondent
\* types while the insert is awaited; the store keeps the answers of the row.
C28_InsertCarriesValidatedAnswers ==
  /\ [][issued' # issued =>
          LET sent == insertReq'.row.answers
          IN /\ validateForm(vForm.fields, answers, userEmail, userName) = NoErrors
             /\ DOMAIN sent \ IdentityKeys = DOMAIN answers \ IdentityKeys
             /\ \A k \in DOMAIN sent \ IdentityKeys : sent[k] = answers[k]
             /\ \A i \in 1..Len(vForm.fields) :
                  vForm.fields[i].required =>
                    AnswerNonEmpty(Get(sent, FieldKey(vForm.fields[i].id)))]_vars
  /\ [][(insertReq.active /\ insertReq'.active) => insertReq' = insertReq]_vars
  /\ [][Len(responses') > Len(responses) =>
          /\ insertReq.active
          /\ responses'[Len(responses')].answers = insertReq.row.answers]_vars

\* the respondent has blanked the required field while the insert is awaited
C28_Witness ==
  /\ lastOp.op = "updateAnswer"
  /\ insertReq.active
  /\ vForm.fields[1].required
  /\ Get(answers, FieldKey(0)) = StrAns(<<" ">>)
  /\ Get(insertReq.row.answers, FieldKey(0)) = StrAns(<<"a">>)

\* a string that is not empty and not blank
Filled(a) == a.kind = "str" /\ Trim(a.v[1]) # EmptyStr

\* C29: the row of an insert has a non-empty user_email and a non-empty
\* user_name: the value the viewer knows of the respondent where it knows a
\* non-empty one, and the typed value otherwise, whether the session lookup
\* answers before, while or after the respondent types; so has every stored
\* response.
C29_IdentityKeysFilled ==
  /\ [][issued' # issued =>
          LET sent == insertReq'.row.answers
          IN /\ IdentityKeys \subseteq DOMAIN sent
             /\ Filled(sent[UserEmailKey])
             /\ Filled(sent[UserNameKey])
             /\ sent[UserEmailKey] = IF userEmail # EmptyStr THEN StrAns(userEmail)
                                     ELSE Get(answers, UserEmailKey)
             /\ sent[UserNameKey] = IF userName # EmptyStr THEN StrAns(userName)
                                    ELSE Get(answers, UserNameKey)]_vars
  /\ [](\A i \in 1..Len(responses) :
          /\ IdentityKeys \subseteq DOMAIN responses[i].answers
          /\ Filled(responses[i].answers[UserEmailKey])
          /\ Filled(responses[i].answers[UserNameKey]))

\* the respondent typed a blank email before the session lookup answered with
\* the account's, and the name while no profile name was known
C29_Witness ==
  /\ lastOp.op = "submitStart"
  /\ respondent # NoUser
  /\ Get(answers, UserEmailKey) = StrAns(<<" ">>)
  /\ insertReq.row.answers[UserEmailKey] = StrAns(EmailOf(respondent))
  /\ userName = EmptyStr
  /\ insertReq.row.answers[UserNameKey] = Get(answers, UserNameKey)

----------------------------------------------------------------------------
(* Claims about a save without a title *)

BlankTitle == Trim(formData.title) = EmptyStr

\* C30: while the title is empty or blank no save request is sent: a click on
\* Save Draft or Publish Form reports the error and leaves the fields, the
\* description, is_published, the saving flag, the form id and the stored
\* forms as they were.
C30_BlankTitleSendsNothing ==
  /\ [][(BlankTitle /\ ~saveReq.active) =>
          /\ ~saveReq'.active
          /\ saving' = saving
          /\ forms' = forms]_vars
  /\ [][(lastOp'.op = "saveNoTitle" /\ lastOp.op # "saveNoTitle") =>
          /\ BlankTitle
          /\ formData' = formData
          /\ saving' = saving
          /\ saveReq' = saveReq
          /\ formId' = formId
          /\ screen' = screen
          /\ forms' = forms]_vars
  /\ [](BlankTitle => ~ENABLED SaveStart)

\* Save Draft was clicked on a form of one field or more whose title is blank
C30_Witness ==
  /\ lastOp.op = "saveNoTitle"
  /\ formData.title = <<" ">>
  /\ formData.fields # <<>>
  /\ ~saving
  /\ ~saveReq.active
  /\ ~forms["f1"].exists
====
